---- MODULE Spec2Model ----
(***************************************************************************)
(* A model of World (src/source/world.js): sizing, entity registration,   *)
(* collision and boundary resolution, and the step loop.                  *)
(*                                                                         *)
(* JavaScript numbers are binary floating point and every arithmetic      *)
(* operator of the source rounds its result to nearest (ties to even).    *)
(* The model keeps that: a number is m * 2^e with a significand of at     *)
(* most Precision bits, and +, -, *, / and Math.sqrt round their exact    *)
(* result to that format.  The exponent is unbounded (no overflow or      *)
(* underflow), NaN is a value of its own.                                 *)
(***************************************************************************)
EXTENDS Integers, Sequences, FiniteSets, TLC

\* Significand width of the modelled binary floating-point format.
Precision == 5

----------------------------------------------------------------------------
\* Numbers

Zero == [m |-> 0, e |-> 0]

\* Not-a-number: the only record with m = 0 and e # 0.
NaN == [m |-> 0, e |-> 1]

IsNaN(x) == x = NaN

Abs(n) == IF n < 0 THEN -n ELSE n

Sign(n) == IF n < 0 THEN -1 ELSE IF n > 0 THEN 1 ELSE 0

Min(a, b) == IF a <= b THEN a ELSE b

Max(a, b) == IF a >= b THEN a ELSE b

RECURSIVE BitLen(_)
\* Number of binary digits of n >= 0.
BitLen(n) == IF n = 0 THEN 0 ELSE 1 + BitLen(n \div 2)

RECURSIVE Canon(_, _)
\* The canonical record of the dyadic rational m * 2^e: m odd, or Zero.
Canon(m, e) ==
    IF m = 0 THEN Zero
    ELSE IF m % 2 = 0 THEN Canon(m \div 2, e + 1)
    ELSE [m |-> m, e |-> e]

\* m * 2^e rounded to Precision significant bits, to nearest, ties to even.
Round(m, e) ==
    LET a == Abs(m)
        k == BitLen(a) - Precision
    IN  IF k <= 0 THEN Canon(m, e)
        ELSE LET q    == a \div (2 ^ k)
                 r    == a % (2 ^ k)
                 half == 2 ^ (k - 1)
                 up   == r > half \/ (r = half /\ q % 2 = 1)
             IN  Canon(Sign(m) * (IF up THEN q + 1 ELSE q), e + k)

\* The number literal n * 2^e as the format holds it.
Num(n, e) == Round(n, e)

\* Position one past the leading bit of a non-zero number.
Msb(x) == x.e + BitLen(Abs(x.m))

\* |x| < |y| for non-zero numbers.
MagLess(x, y) ==
    IF Msb(x) # Msb(y) THEN Msb(x) < Msb(y)
    ELSE LET lo == Min(x.e, y.e)
         IN  Abs(x.m) * 2 ^ (x.e - lo) < Abs(y.m) * 2 ^ (y.e - lo)

\* x < y; false when either is NaN.
Less(x, y) ==
    /\ ~IsNaN(x)
    /\ ~IsNaN(y)
    /\ LET sx == Sign(x.m)
           sy == Sign(y.m)
       IN  IF sx # sy THEN sx < sy
           ELSE IF sx = 0 THEN FALSE
           ELSE IF sx > 0 THEN MagLess(x, y)
           ELSE MagLess(y, x)

\* x > y
Greater(x, y) == Less(y, x)

\* x >= y; false when either is NaN.
GreaterEq(x, y) == ~IsNaN(x) /\ ~IsNaN(y) /\ ~Less(x, y)

\* x <= y
LessEq(x, y) == GreaterEq(y, x)

Neg(x) == IF IsNaN(x) THEN NaN ELSE [m |-> -x.m, e |-> x.e]

\* x + y
FAdd(x, y) ==
    IF IsNaN(x) \/ IsNaN(y) THEN NaN
    ELSE IF x.m = 0 THEN y
    ELSE IF y.m = 0 THEN x
    ELSE IF Msb(x) - Msb(y) >= Precision + 2 THEN x
    ELSE IF Msb(y) - Msb(x) >= Precision + 2 THEN y
    ELSE LET lo == Min(x.e, y.e)
         IN  Round(x.m * 2 ^ (x.e - lo) + y.m * 2 ^ (y.e - lo), lo)

\* x - y
FSub(x, y) == FAdd(x, Neg(y))

\* x * y
FMul(x, y) ==
    IF IsNaN(x) \/ IsNaN(y) THEN NaN
    ELSE Round(x.m * y.m, x.e + y.e)

\* x / y; 0/0 is NaN.  A non-zero number is never divided by zero here.
FDiv(x, y) ==
    IF IsNaN(x) \/ IsNaN(y) \/ y.m = 0 THEN NaN
    ELSE IF x.m = 0 THEN Zero
    ELSE LET a  == Abs(x.m)
             b  == Abs(y.m)
             s  == Max(0, Precision + 2 + BitLen(b) - BitLen(a))
             n  == a * 2 ^ s
             q  == n \div b
             st == IF n % b = 0 THEN 0 ELSE 1
         IN  Round(Sign(x.m) * Sign(y.m) * (2 * q + st), x.e - y.e - s - 1)

RECURSIVE ISqrt(_)
\* The integer square root of n >= 0.
ISqrt(n) ==
    IF n < 2 THEN n
    ELSE LET s == 2 * ISqrt(n \div 4)
         IN  IF (s + 1) * (s + 1) <= n THEN s + 1 ELSE s

\* Math.sqrt(x) for x >= 0.
FSqrt(x) ==
    IF IsNaN(x) \/ x.m < 0 THEN NaN
    ELSE IF x.m = 0 THEN Zero
    ELSE LET w  == 2 * Precision + 4 - BitLen(x.m)
             s  == IF (x.e - w) % 2 = 0 THEN w ELSE w + 1
             n  == x.m * 2 ^ s
             r  == ISqrt(n)
             st == IF r * r = n THEN 0 ELSE 1
         IN  Round(2 * r + st, ((x.e - s) \div 2) - 1)

----------------------------------------------------------------------------
\* vec2 (the vector library world.js calls): a vector is <<x, y>>.

\* The results a vec2.normalize may give for a zero-length vector: the zero
\* vector (the library tests the length before dividing) or NaN (it divides
\* 0 by 0).  world.js does not decide it; both are kept.
ZeroDirections == {<<Zero, Zero>>, <<NaN, NaN>>}

Vec2CreateFrom(a, b) == <<a, b>>

Vec2Add(a, b) == <<FAdd(a[1], b[1]), FAdd(a[2], b[2])>>

Vec2Subtract(a, b) == <<FSub(a[1], b[1]), FSub(a[2], b[2])>>

Vec2Scale(v, s) == <<FMul(v[1], s), FMul(v[2], s)>>

Vec2Length(v) == FSqrt(FAdd(FMul(v[1], v[1]), FMul(v[2], v[2])))

Vec2Normalize(v, zeroDir) ==
    LET mag == FAdd(FMul(v[1], v[1]), FMul(v[2], v[2]))
    IN  IF Greater(mag, Zero)
        THEN <<FDiv(v[1], FSqrt(mag)), FDiv(v[2], FSqrt(mag))>>
        ELSE zeroDir

----------------------------------------------------------------------------
\* Program constants

DT == 16

MIN_DIMENSION == 10

----------------------------------------------------------------------------
\* Bounds of the model

\* Viewport sides are 1..MaxViewport pixels.
MaxViewport == 7

MaxPoints == 2

MaxConstraints == 2

\* Calls the host makes to step, interact (or, for collidePoints_ alone, to it).
MaxCalls == 2

----------------------------------------------------------------------------
\* Inputs

Two == Num(2, 0)

Vec(a, b, e) == <<Num(a, e), Num(b, e)>>

\* Option literals handed to addPoint: a unit disc at rest against the left
\* edge, one moving left towards it, a passive one flying out through the top
\* left corner, and a passive disc too big for the world.
PointOptions ==
    { [current |-> Vec(1, 5, 0), previous |-> Vec(1, 5, 0),
       radius |-> Num(1, 0), interactive |-> TRUE],
      [current |-> Vec(3, 5, 0), previous |-> Vec(4, 5, 0),
       radius |-> Num(1, 0), interactive |-> TRUE],
      [current |-> Vec(2, 5, 0), previous |-> Vec(6, -3, 0),
       radius |-> Num(1, 0), interactive |-> FALSE],
      [current |-> Vec(5, 5, 0), previous |-> Vec(5, 5, 0),
       radius |-> Num(6, 0), interactive |-> FALSE] }

\* The argument the host hands to step: none, or a dt.
StepArgs == {<<>>, <<8>>}

\* Points handed to collidePoints_ when it is checked alone.
CollideCoords == {Num(0, 0), Num(1, 0), Num(3, -1), Num(3, 0)}

CollideRadii == {Num(1, -1), Num(1, 0), Num(2, 0)}

CollideInputs ==
    { [current |-> c, previous |-> c, radius |-> r, interactive |-> TRUE] :
        c \in CollideCoords \X {Num(0, 0), Num(1, 0), Num(3, 0)},
        r \in CollideRadii }

----------------------------------------------------------------------------
VARIABLES
    windowInnerWidth,   \* window.innerWidth
    windowInnerHeight,  \* window.innerHeight
    innerWidth,         \* setSize's local: the viewport width it last read
    innerHeight,        \* setSize's local: the viewport height it last read
    width, height, gravity, points_, constraints_, scale_, maxScale_,
    pc,                 \* where step is: "idle", "satisfy" or "move"
    i, l,               \* step's loop variables
    stepArg,            \* the argument of the step call in progress (or last)
    calls,              \* satisfy and move calls made by that step call
    lastInteract,       \* the last interact call: argument, points before,
                        \* after the pairwise loop, and on return
    lastCollide,        \* the last direct collidePoints_ call
    nCalls              \* host calls made so far

vars == <<windowInnerWidth, windowInnerHeight, innerWidth, innerHeight, width,
          height, gravity, points_, constraints_, scale_, maxScale_, pc, i, l,
          stepArg, calls, lastInteract, lastCollide, nCalls>>

window == <<windowInnerWidth, windowInnerHeight>>

size == <<innerWidth, innerHeight, width, height, scale_, maxScale_>>

stepVars == <<pc, i, l, stepArg, calls>>

----------------------------------------------------------------------------
\* World.prototype.setSize

\* setSize with the aspect ratio upside down in the wide branch.
SetSizeFieldsInvertedRatio(w, h) ==
    LET iw == Num(w, 0)
        ih == Num(h, 0)
        md == Num(MIN_DIMENSION, 0)
        wd == IF w > h THEN FMul(md, FDiv(ih, iw)) ELSE md
        ht == IF w > h THEN md ELSE FMul(md, FDiv(ih, iw))
    IN  [width     |-> wd,
         height    |-> ht,
         maxScale_ |-> IF w > h THEN FDiv(iw, wd) ELSE FDiv(ih, ht),
         scale_    |-> Vec2CreateFrom(FDiv(iw, wd), FDiv(ih, ht))]

\* setSize taking maxScale_ from the wrong pair in the wide branch.
SetSizeFieldsMixedScale(w, h) ==
    LET iw == Num(w, 0)
        ih == Num(h, 0)
        md == Num(MIN_DIMENSION, 0)
        wd == IF w > h THEN FMul(md, FDiv(iw, ih)) ELSE md
        ht == IF w > h THEN md ELSE FMul(md, FDiv(ih, iw))
    IN  [width     |-> wd,
         height    |-> ht,
         maxScale_ |-> IF w > h THEN FDiv(iw, ht) ELSE FDiv(ih, ht),
         scale_    |-> Vec2CreateFrom(FDiv(iw, wd), FDiv(ih, ht))]

\* The fields setSize assigns, for a viewport of w by h pixels.
SetSizeFields(w, h) ==
    LET iw == Num(w, 0)
        ih == Num(h, 0)
        md == Num(MIN_DIMENSION, 0)
        wd == IF w > h THEN FMul(md, FDiv(iw, ih)) ELSE md
        ht == IF w > h THEN md ELSE FMul(md, FDiv(ih, iw))
    IN  [width     |-> wd,
         height    |-> ht,
         maxScale_ |-> IF w > h THEN FDiv(iw, wd) ELSE FDiv(ih, ht),
         scale_    |-> Vec2CreateFrom(FDiv(iw, wd), FDiv(ih, ht))]

SetSize ==
    /\ pc = "idle"
    /\ innerWidth' = windowInnerWidth
    /\ innerHeight' = windowInnerHeight
    /\ LET f == SetSizeFields(windowInnerWidth, windowInnerHeight)
       IN  /\ width' = f.width
           /\ height' = f.height
           /\ maxScale_' = f.maxScale_
           /\ scale_' = f.scale_
    /\ UNCHANGED <<window, gravity, points_, constraints_, stepVars,
                   lastInteract, lastCollide, nCalls>>

\* The host's window is resized.
Resize(w, h) ==
    /\ pc = "idle"
    /\ <<w, h>> # window
    /\ windowInnerWidth' = w
    /\ windowInnerHeight' = h
    /\ UNCHANGED <<size, gravity, points_, constraints_, stepVars,
                   lastInteract, lastCollide, nCalls>>

----------------------------------------------------------------------------
\* World.prototype.addPoint, addConstraint

AddPoint(options) ==
    /\ pc = "idle"
    /\ Len(points_) < MaxPoints
    /\ points_' = Append(points_, options)
    /\ UNCHANGED <<window, size, gravity, constraints_, stepVars,
                   lastInteract, lastCollide, nCalls>>

\* A constraint is known to the world by its place in constraints_ alone.
AddConstraint ==
    /\ pc = "idle"
    /\ Len(constraints_) < MaxConstraints
    /\ constraints_' = Append(constraints_, Len(constraints_) + 1)
    /\ UNCHANGED <<window, size, gravity, points_, stepVars,
                   lastInteract, lastCollide, nCalls>>

----------------------------------------------------------------------------
\* World.prototype.collidePoints_

\* collidePoints_ without its early return.
CollidePointsNoReturn(pts, a, b, zeroDir) ==
    LET between    == Vec2Subtract(pts[a].current, pts[b].current)
        distance   == FSub(FSub(Vec2Length(between), pts[a].radius), pts[b].radius)
        direction  == Vec2Normalize(between, zeroDir)
        adjustment == Vec2Scale(direction, FDiv(Neg(distance), Two))
    IN  [pts EXCEPT ![a].current = Vec2Add(pts[a].current, adjustment),
                    ![b].current = Vec2Subtract(pts[b].current, adjustment)]

\* collidePoints_ moving each point by the whole overlap, not half of it.
CollidePointsWholeOverlap(pts, a, b, zeroDir) ==
    LET between  == Vec2Subtract(pts[a].current, pts[b].current)
        distance == FSub(FSub(Vec2Length(between), pts[a].radius), pts[b].radius)
    IN  IF GreaterEq(distance, Zero) THEN pts
        ELSE LET direction  == Vec2Normalize(between, zeroDir)
                 adjustment == Vec2Scale(direction, Neg(distance))
             IN  [pts EXCEPT ![a].current = Vec2Add(pts[a].current, adjustment),
                             ![b].current = Vec2Subtract(pts[b].current, adjustment)]

\* pts after collidePoints_(pts[a], pts[b]).
CollidePoints_(pts, a, b, zeroDir) ==
    LET between  == Vec2Subtract(pts[a].current, pts[b].current)
        distance == FSub(FSub(Vec2Length(between), pts[a].radius), pts[b].radius)
    IN  IF GreaterEq(distance, Zero) THEN pts
        ELSE LET direction  == Vec2Normalize(between, zeroDir)
                 adjustment == Vec2Scale(direction, FDiv(Neg(distance), Two))
             IN  [pts EXCEPT ![a].current = Vec2Add(pts[a].current, adjustment),
                             ![b].current = Vec2Subtract(pts[b].current, adjustment)]

----------------------------------------------------------------------------
\* World.prototype.interact

\* The loop's test without the interactive flag.
CollidesWithAny(pts, p, k) == p # k

\* Whether interact(pts[p]) hands pts[k] to collidePoints_.
Collides(pts, p, k) == p # k /\ pts[k].interactive

RECURSIVE InteractLoop(_, _, _, _)
\* The pairwise loop of interact(pts[p]), from index k on.
InteractLoop(pts, p, k, zeroDir) ==
    IF k > Len(pts) THEN pts
    ELSE InteractLoop(IF Collides(pts, p, k)
                      THEN CollidePoints_(pts, p, k, zeroDir) ELSE pts,
                      p, k + 1, zeroDir)

\* The pairs the loop hands to collidePoints_, in order.
RECURSIVE LoopPairs(_, _, _)
LoopPairs(pts, p, k) ==
    IF k > Len(pts) THEN <<>>
    ELSE (IF Collides(pts, p, k) THEN <<(<<p, k>>)>> ELSE <<>>)
         \o LoopPairs(pts, p, k + 1)

\* The clamp with the radius forgotten at the far edge.
EdgeClampFarEdgeNoRadius(v, r, extent) ==
    IF Less(v, r) THEN r
    ELSE IF Greater(v, extent) THEN extent
    ELSE v

\* One coordinate v of a point of radius r moved back inside 0..extent.
EdgeClamp(v, r, extent) ==
    IF Less(v, r) THEN r
    ELSE IF Greater(v, FSub(extent, r)) THEN FSub(extent, r)
    ELSE v

\* The record of the call interact(pts[p]).
Interact(pts, p, zeroDir, again) ==
    LET looped  == InteractLoop(pts, p, 1, zeroDir)
        current == looped[p].current
        r       == looped[p].radius
    IN  [point      |-> p,
         before     |-> pts,
         pairs      |-> LoopPairs(pts, p, 1),
         afterPairs |-> looped,
         after      |-> [looped EXCEPT ![p].current =
                            <<EdgeClamp(current[1], r, width),
                              EdgeClamp(current[2], r, height)>>],
         repeat     |-> again]

NoInteract ==
    [point |-> 0, before |-> <<>>, pairs |-> <<>>, afterPairs |-> <<>>,
     after |-> <<>>, repeat |-> FALSE]

NoCollide == [p1 |-> 0, p2 |-> 0, before |-> <<>>, after |-> <<>>]

\* The host calls world.interact(point).
InteractCall(p, zeroDir) ==
    /\ pc = "idle"
    /\ nCalls < MaxCalls
    /\ lastInteract' = Interact(points_, p, zeroDir,
                                /\ lastInteract.point = p
                                /\ lastInteract.after = points_)
    /\ points_' = lastInteract'.after
    /\ nCalls' = nCalls + 1
    /\ UNCHANGED <<window, size, gravity, constraints_, stepVars, lastCollide>>

\* collidePoints_(points_[a], points_[b]) called on its own.
CollideCall(a, b, zeroDir) ==
    /\ pc = "idle"
    /\ nCalls < MaxCalls
    /\ a # b
    /\ points_' = CollidePoints_(points_, a, b, zeroDir)
    /\ lastCollide' = [p1 |-> a, p2 |-> b, before |-> points_, after |-> points_']
    /\ nCalls' = nCalls + 1
    /\ UNCHANGED <<window, size, gravity, constraints_, stepVars, lastInteract>>

----------------------------------------------------------------------------
\* Point and Constraint: the methods step calls

SatisfyCall(c, dt) == [fn |-> "satisfy", obj |-> c, dt |-> dt]

MoveCall(p, dt) == [fn |-> "move", obj |-> p, dt |-> dt]

\* pts[p] after its Verlet integration: it moves on by what it moved last
\* (the world's gravity is the zero vector and adds nothing).
Integrate(pts, p) ==
    [pts EXCEPT ![p].previous = pts[p].current,
                ![p].current = Vec2Add(pts[p].current,
                                   Vec2Subtract(pts[p].current, pts[p].previous))]

\* points_[p].move(dt): the point integrates its motion, then calls
\* world.interact(self).
PointMove(pts, p, zeroDir) == Interact(Integrate(pts, p), p, zeroDir, FALSE)

----------------------------------------------------------------------------
\* World.prototype.step

\* The host calls world.step(...): the first loop is set up.
StepCall(arg) ==
    /\ pc = "idle"
    /\ nCalls < MaxCalls
    /\ nCalls' = nCalls + 1
    /\ stepArg' = arg
    /\ calls' = <<>>
    /\ pc' = "satisfy"
    /\ i' = 1
    /\ l' = Len(constraints_)
    /\ UNCHANGED <<window, size, gravity, points_, constraints_, lastInteract,
                   lastCollide>>

\* The first loop running from the last constraint to the first.
StepSatisfyBackwards ==
    /\ pc = "satisfy"
    /\ i <= l
    /\ calls' = Append(calls, SatisfyCall(constraints_[l - i + 1], DT))
    /\ i' = i + 1
    /\ UNCHANGED <<window, size, gravity, points_, constraints_, pc, l, stepArg,
                   lastInteract, lastCollide, nCalls>>

\* this.constraints_[i].satisfy(World.DT)
StepSatisfy ==
    /\ pc = "satisfy"
    /\ i <= l
    /\ calls' = Append(calls, SatisfyCall(constraints_[i], DT))
    /\ i' = i + 1
    /\ UNCHANGED <<window, size, gravity, points_, constraints_, pc, l, stepArg,
                   lastInteract, lastCollide, nCalls>>

\* The first loop ends, the second is set up.
StepLoopPoints ==
    /\ pc = "satisfy"
    /\ i > l
    /\ pc' = "move"
    /\ i' = 1
    /\ l' = Len(points_)
    /\ UNCHANGED <<window, size, gravity, points_, constraints_, stepArg, calls,
                   lastInteract, lastCollide, nCalls>>

\* The second loop handing on the caller's dt when there is one.
StepMoveCallerDt(zeroDir) ==
    /\ pc = "move"
    /\ i <= l
    /\ calls' = Append(calls, MoveCall(i, IF stepArg = <<>> THEN DT ELSE stepArg[1]))
    /\ lastInteract' = PointMove(points_, i, zeroDir)
    /\ points_' = lastInteract'.after
    /\ i' = i + 1
    /\ UNCHANGED <<window, size, gravity, constraints_, pc, l, stepArg,
                   lastCollide, nCalls>>

\* this.points_[i].move(World.DT)
StepMove(zeroDir) ==
    /\ pc = "move"
    /\ i <= l
    /\ calls' = Append(calls, MoveCall(i, DT))
    /\ lastInteract' = PointMove(points_, i, zeroDir)
    /\ points_' = lastInteract'.after
    /\ i' = i + 1
    /\ UNCHANGED <<window, size, gravity, constraints_, pc, l, stepArg,
                   lastCollide, nCalls>>

\* step returns: its argument, its locals and the record of its calls go.
StepReturn ==
    /\ pc = "move"
    /\ i > l
    /\ pc' = "idle"
    /\ i' = 0
    /\ l' = 0
    /\ stepArg' = <<>>
    /\ calls' = <<>>
    /\ UNCHANGED <<window, size, gravity, points_, constraints_, lastInteract,
                   lastCollide, nCalls>>

----------------------------------------------------------------------------
\* Specifications

\* new World() in a window of w by h pixels.
Constructed(w, h) ==
    /\ windowInnerWidth = w
    /\ windowInnerHeight = h
    /\ innerWidth = w
    /\ innerHeight = h
    /\ LET f == SetSizeFields(w, h)
       IN  /\ width = f.width
           /\ height = f.height
           /\ maxScale_ = f.maxScale_
           /\ scale_ = f.scale_
    /\ gravity = Vec2CreateFrom(Zero, Zero)
    /\ constraints_ = <<>>
    /\ pc = "idle"
    /\ i = 0
    /\ l = 0
    /\ stepArg = <<>>
    /\ calls = <<>>
    /\ lastInteract = NoInteract
    /\ lastCollide = NoCollide
    /\ nCalls = 0

\* The world: registration, interact and step.
Init ==
    /\ Constructed(3, 2)
    /\ points_ = <<>>

Next ==
    \/ \E options \in PointOptions : AddPoint(options)
    \/ AddConstraint
    \/ \E p \in 1..Len(points_), zeroDir \in ZeroDirections : InteractCall(p, zeroDir)
    \/ \E arg \in StepArgs : StepCall(arg)
    \/ StepSatisfy
    \/ StepLoopPoints
    \/ \E zeroDir \in ZeroDirections : StepMove(zeroDir)
    \/ StepReturn

Spec == Init /\ [][Next]_vars

\* Sizing: the window is resized and setSize is called.
InitSize ==
    /\ Constructed(1, 1)
    /\ points_ = <<>>

NextSize ==
    \/ \E w, h \in 1..MaxViewport : Resize(w, h)
    \/ SetSize

SpecSize == InitSize /\ [][NextSize]_vars

\* collidePoints_ on its own, on two points.
InitCollide ==
    /\ Constructed(1, 1)
    /\ \E p, q \in CollideInputs : points_ = <<p, q>>

NextCollide ==
    \E a, b \in 1..2, zeroDir \in ZeroDirections : CollideCall(a, b, zeroDir)

SpecCollide == InitCollide /\ [][NextCollide]_vars
----------------------------------------------------------------------------
\* Vocabulary of the properties

FAbs(x) == IF IsNaN(x) THEN NaN ELSE [m |-> Abs(x.m), e |-> x.e]

FMax(a, b) == IF Less(a, b) THEN b ELSE a

FMin(a, b) == IF Less(b, a) THEN b ELSE a

\* |a - b| <= 2^(k - Precision) * mag: a and b agree to within 2^k units of
\* the rounding error of a number of size mag.
Within(a, b, k, mag) ==
    LessEq(FAbs(FSub(a, b)), FMul(Num(1, k - Precision), mag))

HasNaN(v) == IsNaN(v[1]) \/ IsNaN(v[2])

\* radius <= position <= extent - radius on both axes.
InsideBounds(pt) ==
    /\ LessEq(pt.radius, pt.current[1])
    /\ LessEq(pt.current[1], FSub(width, pt.radius))
    /\ LessEq(pt.radius, pt.current[2])
    /\ LessEq(pt.current[2], FSub(height, pt.radius))

\* The domain has room for the point: radius <= extent - radius on both axes.
Fits(pt) ==
    /\ LessEq(pt.radius, FSub(width, pt.radius))
    /\ LessEq(pt.radius, FSub(height, pt.radius))

\* step has made all its calls and is about to return.
StepEnds == pc = "move" /\ i > l

\* The calls a step makes: every constraint in insertion order, then every
\* point in insertion order.
StepOrder ==
    [k \in 1..(Len(constraints_) + Len(points_)) |->
        IF k <= Len(constraints_) THEN <<"satisfy", constraints_[k]>>
        ELSE <<"move", k - Len(constraints_)>>]

CallTargets == [k \in 1..Len(calls) |-> <<calls[k].fn, calls[k].obj>>]

Interacted == lastInteract.point # 0

Collided == lastCollide.p1 # 0

\* Of the last collidePoints_ call: the two centres before and after, the
\* computed distance between centres and the sum of the radii.
P1Before == lastCollide.before[lastCollide.p1].current

P2Before == lastCollide.before[lastCollide.p2].current

P1After == lastCollide.after[lastCollide.p1].current

P2After == lastCollide.after[lastCollide.p2].current

RadiiSum ==
    FAdd(lastCollide.before[lastCollide.p1].radius,
         lastCollide.before[lastCollide.p2].radius)

CenterDistance(c1, c2) == Vec2Length(Vec2Subtract(c1, c2))

\* Centre distance less the two radii, before the call: negative when the
\* discs overlap, zero when they are tangent.
Gap ==
    FSub(FSub(CenterDistance(P1Before, P2Before),
              lastCollide.before[lastCollide.p1].radius),
         lastCollide.before[lastCollide.p2].radius)

Midpoint(c1, c2) == Vec2Scale(Vec2Add(c1, c2), Num(1, -1))

\* The two discs overlap and their centres differ.
Overlapping ==
    /\ Collided
    /\ P1Before # P2Before
    /\ Less(Gap, Zero)

\* The largest magnitude among the coordinates and the sum of the radii.
CollideMag ==
    LET coords == <<P1Before[1], P1Before[2], P2Before[1], P2Before[2],
                    P1After[1], P1After[2], P2After[1], P2After[2]>>
        F[k \in 0..8] == IF k = 0 THEN RadiiSum ELSE FMax(F[k - 1], FAbs(coords[k]))
    IN  F[8]

\* The spec's example: unit discs at (0,0) and (1.5,0).
SpecExample ==
    /\ Collided
    /\ P1Before = Vec(0, 0, 0)
    /\ P2Before = Vec(3, 0, -1)
    /\ RadiiSum = Num(2, 0)
    /\ lastCollide.before[lastCollide.p1].radius = Num(1, 0)

\* The viewport setSize last read, longer and shorter side, and the world's.
ViewLong == Num(Max(innerWidth, innerHeight), 0)

ViewShort == Num(Min(innerWidth, innerHeight), 0)

Wide == innerWidth > innerHeight

----------------------------------------------------------------------------
\* Properties

\* C1: one step calls satisfy on every constraint once, in insertion order,
\* and only then move on every point once, in insertion order: at every
\* moment of a step the calls made so far are a prefix of that sequence, and
\* when the step ends they are all of it.
C1_StepOrder ==
    /\ pc # "idle" => /\ Len(calls) <= Len(StepOrder)
                      /\ CallTargets = SubSeq(StepOrder, 1, Len(calls))
    /\ StepEnds => CallTargets = StepOrder

\* A step over two constraints and two points ends.
C1_Witness == StepEnds /\ Len(constraints_) >= 2 /\ Len(points_) >= 2

C3_NoOverlapNoChange ==
    (Collided /\ GreaterEq(Gap, Zero)) => lastCollide.after = lastCollide.before

\* collidePoints_ has been called on exactly tangent points.
C3_Witness ==
    /\ Collided
    /\ Gap = Zero
    /\ CenterDistance(P1Before, P2Before) = RadiiSum
    /\ P1Before # P2Before

\* C4 as stated: interact hands collidePoints_ only pairs of interactive
\* points, and its pairwise loop moves no point that is not interactive.
C4_OnlyInteractiveCollide ==
    Interacted =>
        /\ \A k \in 1..Len(lastInteract.pairs) :
              /\ lastInteract.before[lastInteract.pairs[k][1]].interactive
              /\ lastInteract.before[lastInteract.pairs[k][2]].interactive
        /\ \A q \in 1..Len(lastInteract.before) :
              ~lastInteract.before[q].interactive =>
                  lastInteract.afterPairs[q].current = lastInteract.before[q].current

\* C5 as stated: after setSize the smaller extent is MIN_DIMENSION, on the
\* axis the claim names, and the ratio of the extents is the ratio of the
\* viewport's sides.
C5_AspectRatioExact ==
    /\ FMin(width, height) = Num(MIN_DIMENSION, 0)
    /\ Wide => height = Num(MIN_DIMENSION, 0)
    /\ ~Wide => width = Num(MIN_DIMENSION, 0)
    /\ FDiv(FMax(width, height), FMin(width, height)) = FDiv(ViewLong, ViewShort)

\* C5 amended: the smaller extent is exactly MIN_DIMENSION, on the axis the
\* claim names; the ratio of the extents is the ratio of the viewport's sides
\* up to rounding (within 4 rounding errors).
C5_AspectRatioUpToRounding ==
    /\ FMin(width, height) = Num(MIN_DIMENSION, 0)
    /\ Wide => height = Num(MIN_DIMENSION, 0)
    /\ ~Wide => width = Num(MIN_DIMENSION, 0)
    /\ Within(FDiv(FMax(width, height), FMin(width, height)),
              FDiv(ViewLong, ViewShort), 2, FDiv(ViewLong, ViewShort))

\* setSize has sized the world for a window of 4 by 3 pixels.
C5_Witness == innerWidth = 4 /\ innerHeight = 3 /\ Greater(width, height)

\* C6 as stated: maxScale_ is the component of scale_ along the axis whose
\* extent is MIN_DIMENSION.
C6_MaxScaleOnFixedAxis == maxScale_ = IF Wide THEN scale_[2] ELSE scale_[1]

\* C6 amended: maxScale_ is exactly the component of scale_ along the other
\* axis (x when the viewport is wider than tall, y otherwise: the one setSize
\* divides by the same extent), and is the component along the MIN_DIMENSION
\* axis up to rounding (within 8 rounding errors).
C6_MaxScaleOnLongAxis ==
    /\ maxScale_ = IF Wide THEN scale_[1] ELSE scale_[2]
    /\ Within(maxScale_, IF Wide THEN scale_[2] ELSE scale_[1], 3, maxScale_)

\* setSize has sized the world for a window taller than wide.
C6_Witness == innerWidth = 3 /\ innerHeight = 4 /\ Greater(height, width)

\* C7: interact on a point inside the bounds, in a world with no other
\* interactive point, leaves every position as it was; so does each further
\* interact on it.
C7_InsideStaysPut ==
    (/\ Interacted
     /\ InsideBounds(lastInteract.before[lastInteract.point])
     /\ \A q \in 1..Len(lastInteract.before) :
           q # lastInteract.point => ~lastInteract.before[q].interactive) =>
        lastInteract.after = lastInteract.before

\* interact has been called twice running on a point inside the bounds, among
\* other points none of which is interactive.
C7_Witness ==
    /\ Interacted
    /\ lastInteract.repeat
    /\ Len(lastInteract.before) >= 2
    /\ InsideBounds(lastInteract.before[lastInteract.point])
    /\ \A q \in 1..Len(lastInteract.before) :
          q # lastInteract.point => ~lastInteract.before[q].interactive

\* C8 as stated: step passes the caller's dt to every satisfy and move, and
\* DT only when the caller gave none.
C8_CallerDtPassed ==
    \A k \in 1..Len(calls) :
        calls[k].dt = IF stepArg = <<>> THEN DT ELSE stepArg[1]

\* C8 amended: step passes DT to every satisfy and move, whatever argument
\* the caller gave.
C8_AlwaysDT == \A k \in 1..Len(calls) : calls[k].dt = DT

\* A step called with dt = 8 has called a satisfy and a move.
C8_Witness ==
    /\ StepEnds
    /\ stepArg = <<8>>
    /\ \E k \in 1..Len(calls) : calls[k].fn = "satisfy"
    /\ \E k \in 1..Len(calls) : calls[k].fn = "move"

\* C9 as stated: when interact returns, its point is inside the bounds.
C9_InsideOnReturn ==
    Interacted => InsideBounds(lastInteract.after[lastInteract.point])

\* C9 amended: when interact returns, its point is inside the bounds if the
\* domain has room for it (radius <= extent - radius on both axes) and the
\* pairwise loop left it a position that is a number.
C9_InsideOnReturnIfFits ==
    (/\ Interacted
     /\ Fits(lastInteract.before[lastInteract.point])
     /\ ~HasNaN(lastInteract.afterPairs[lastInteract.point].current)) =>
        InsideBounds(lastInteract.after[lastInteract.point])

\* interact has moved a point that fits back in from beyond two edges.
C9_Witness ==
    /\ Interacted
    /\ Fits(lastInteract.before[lastInteract.point])
    /\ ~HasNaN(lastInteract.afterPairs[lastInteract.point].current)
    /\ ~InsideBounds(lastInteract.afterPairs[lastInteract.point])
    /\ lastInteract.after[lastInteract.point].current[1]
          # lastInteract.afterPairs[lastInteract.point].current[1]
    /\ lastInteract.after[lastInteract.point].current[2]
          # lastInteract.afterPairs[lastInteract.point].current[2]

\* C10 as stated, in the case most favourable to it (the domain has room for
\* every point and no position is NaN): when a step ends, every point is
\* inside the bounds.
C10_AllInsideAfterStep ==
    (/\ StepEnds
     /\ \A q \in 1..Len(points_) : Fits(points_[q]) /\ ~HasNaN(points_[q].current)) =>
        \A q \in 1..Len(points_) : InsideBounds(points_[q])
====
